---- MODULE Spec2Model ----
(***************************************************************************)
(* A model of the libraries.io client of src/librariesio/librariesio.go:   *)
(* one caller working with one Client.  The caller builds requests         *)
(* (NewRequest), dispatches them (Do, modelled step by step, with its      *)
(* rate-limit retry), validates responses (CheckResponse) and renders      *)
(* errors (ErrorResponse.Error and url.Error).                             *)
(*                                                                         *)
(* Texts are modelled by their structure.  A raw query string is a         *)
(* sequence of <<key, escaped value>> pairs, a header value is a sequence  *)
(* of characters, a 64-bit integer is a sequence of eight base-256 limbs   *)
(* (little endian, two's complement), so that Go's wrap-around arithmetic  *)
(* is kept at its real width.                                              *)
(***************************************************************************)
EXTENDS Integers, Sequences, FiniteSets, TLC

VARIABLES
    client,      \* the Client's fields set by NewClient: apiKey, BaseURL, UserAgent, Timeout
    Retry,       \* Client.Retry
    req,         \* the request the caller holds (its URL is shared with every copy of it)
    reqErr,      \* the error of the last NewRequest
    pc,          \* where the caller is: at rest, or inside Do
    obj,         \* Do's result container: TRUE when one is supplied
    cancelled,   \* the context given to Do has been cancelled
    resp,        \* the current *http.Response
    errs,        \* the results of the CheckResponse calls made on resp, oldest first
    err,         \* the error value the caller holds (or Do is about to return)
    retResp,     \* Do returned a non-nil response
    slept,       \* the time the last time.Sleep took, in nanoseconds (limbs)
    sends,       \* calls of c.client.Do in the current Do call (observation)
    throttled,   \* retry-eligible 429 responses in the current Do call (observation)
    openBodies,  \* response bodies whose deferred Close has not run yet
    rendered,    \* the text of the last rendered error
    last         \* the last operation and its arguments (observation)

vars == <<client, Retry, req, reqErr, pc, obj, cancelled, resp, errs, err, retResp,
          slept, sends, throttled, openBodies, rendered, last>>

(***************************************************************************)
(* Bounds of the model.                                                    *)
(***************************************************************************)
\* Longest raw query a caller supplies, in pairs.
MaxQuery == 2
\* The observation counters (sends, throttled, openBodies) stop counting here.
MaxCount == 3
\* CheckResponse calls recorded per response.
MaxChecks == 2

(***************************************************************************)
(* Program constants.                                                      *)
(***************************************************************************)
APIKey == "1234"
Redacted == "REDACTED"
mediaType == "application/json"
userAgent == "go-librariesio/1"
StatusTooManyRequests == 429
\* time.Second in nanoseconds is 10^9 = Thousand^3.
Thousand == 1000
\* Limbs of an int / int64 / time.Duration.
IntLimbs == 8
\* Limbs of the exact (unwrapped) arithmetic the claims are stated in.
WideLimbs == 12
LimbBase == 256

Methods == {"GET", "POST"}

\* NewClient(apiKey), lines 34-47.  The http.Client is made with a Transport
\* only, so its Timeout is the zero Duration: no timeout.  Retry is false.
NewClient(apiKey) ==
    [apiKey |-> apiKey,
     BaseURL |-> <<"https://libraries.io", "/api/">>,
     UserAgent |-> userAgent,
     Timeout |-> 0]

(***************************************************************************)
(* Query strings: net/url's Values, ParseQuery, Set, Encode.               *)
(***************************************************************************)
Keys == {"a", "api_key", "b"}
\* The keys in the byte order Encode sorts them into.
SortedKeys == <<"a", "api_key", "b">>

\* Escaped value texts as they occur in a raw query.  "%zz" is an invalid escape.
RawValues == {"1234", "REDACTED", "x", "x%20y", "x+y", "%zz"}

\* url.QueryUnescape: "bad" stands for the error.
QueryUnescape(t) ==
    CASE t = "x%20y" -> "x y"
      [] t = "x+y"   -> "x y"
      [] t = "%zz"   -> "bad"
      [] OTHER       -> t

\* url.QueryEscape.
QueryEscape(v) == IF v = "x y" THEN "x+y" ELSE v

RECURSIVE ValuesOf(_, _)
\* The unescaped values of key k in raw query q, in order; a pair whose value
\* does not unescape is dropped (ParseQuery goes on after an error, and
\* URL.Query discards the error).
ValuesOf(q, k) ==
    IF q = <<>> THEN <<>>
    ELSE LET p == Head(q)
             rest == ValuesOf(Tail(q), k)
         IN IF p[1] = k /\ QueryUnescape(p[2]) # "bad"
            THEN <<QueryUnescape(p[2])>> \o rest
            ELSE rest

\* URL.Query(): the url.Values of a raw query.
Query(q) == [k \in Keys |-> ValuesOf(q, k)]

\* Values.Add would append; Values.Set replaces every value of the key.
ValuesAdd(v, k, x) == [v EXCEPT ![k] = @ \o <<x>>]
ValuesSet(v, k, x) == [v EXCEPT ![k] = <<x>>]

\* Values.Get: the first value, or "".
ValuesGet(v, k) == IF v[k] = <<>> THEN "" ELSE v[k][1]

RECURSIVE EncodeKey(_, _)
EncodeKey(k, xs) ==
    IF xs = <<>> THEN <<>>
    ELSE <<<<k, QueryEscape(Head(xs))>>>> \o EncodeKey(k, Tail(xs))

RECURSIVE EncodeFrom(_, _)
EncodeFrom(v, i) ==
    IF i > Len(SortedKeys) THEN <<>>
    ELSE EncodeKey(SortedKeys[i], v[SortedKeys[i]]) \o EncodeFrom(v, i + 1)

\* Values.Encode(): the keys sorted, every value escaped.
Encode(v) == EncodeFrom(v, 1)

(***************************************************************************)
(* Machine integers.  A number is a sequence of base-LimbBase limbs, the   *)
(* lowest first; with IntLimbs limbs it is Go's int / int64 /              *)
(* time.Duration in two's complement, and arithmetic on it wraps at 2^64   *)
(* as Go's does.                                                           *)
(***************************************************************************)
Zero(n) == [i \in 1..n |-> 0]

RECURSIVE MulAddFrom(_, _, _, _)
MulAddFrom(x, m, carry, i) ==
    IF i > Len(x) THEN <<>>
    ELSE LET t == x[i] * m + carry
         IN <<t % LimbBase>> \o MulAddFrom(x, m, t \div LimbBase, i + 1)

\* (x * m + a) modulo LimbBase^Len(x), for small m and a.
MulAdd(x, m, a) == MulAddFrom(x, m, a, 1)

\* x widened to n limbs (x not negative), and cut to its n lowest limbs.
Widen(x, n) == [i \in 1..n |-> IF i <= Len(x) THEN x[i] ELSE 0]
Narrow(x, n) == SubSeq(x, 1, n)

\* Two's complement: the sign, and the negation.
IsNegative(x) == x[Len(x)] >= LimbBase \div 2
Negate(x) == MulAdd([i \in 1..Len(x) |-> LimbBase - 1 - x[i]], 1, 1)

RECURSIVE LessFrom(_, _, _)
LessFrom(x, y, i) ==
    IF i = 0 THEN FALSE
    ELSE IF x[i] # y[i] THEN x[i] < y[i]
    ELSE LessFrom(x, y, i - 1)

\* x < y for two unsigned numbers of the same length.
Less(x, y) == LessFrom(x, y, Len(x))

\* math.MaxInt64, widened.
MaxInt64 ==
    [i \in 1..WideLimbs |->
        IF i < IntLimbs THEN LimbBase - 1
        ELSE IF i = IntLimbs THEN LimbBase \div 2 - 1 ELSE 0]

(***************************************************************************)
(* strconv.Atoi on a header value (a sequence of characters).              *)
(***************************************************************************)
DigitValue ==
    [c \in {"0", "1", "2", "3", "4", "5", "6", "7", "8", "9"} |->
        CASE c = "0" -> 0 [] c = "1" -> 1 [] c = "2" -> 2 [] c = "3" -> 3
          [] c = "4" -> 4 [] c = "5" -> 5 [] c = "6" -> 6 [] c = "7" -> 7
          [] c = "8" -> 8 [] c = "9" -> 9]

RECURSIVE ParseDigits(_, _)
\* The exact value of a digit string, accumulated as Atoi does (n*10 + d).
ParseDigits(s, acc) ==
    IF s = <<>> THEN acc
    ELSE ParseDigits(Tail(s), MulAdd(acc, 10, DigitValue[Head(s)]))

\* [ok |-> FALSE] is the *strconv.NumError (syntax or range).
Atoi(s) ==
    LET signed == s # <<>> /\ s[1] \in {"+", "-"}
        neg    == s # <<>> /\ s[1] = "-"
        body   == IF signed THEN Tail(s) ELSE s
    IN IF body = <<>> \/ \E i \in 1..Len(body) : body[i] \notin DOMAIN DigitValue
       THEN [ok |-> FALSE, val |-> Zero(IntLimbs)]
       ELSE LET mag == ParseDigits(body, Zero(WideLimbs))
                top == IF neg THEN MulAdd(MaxInt64, 1, 1) ELSE MaxInt64
            IN IF Less(top, mag)
               THEN [ok |-> FALSE, val |-> Zero(IntLimbs)]
               ELSE [ok |-> TRUE,
                     val |-> IF neg THEN Negate(Narrow(mag, IntLimbs))
                             ELSE Narrow(mag, IntLimbs)]

(***************************************************************************)
(* The wait of the retry: time.Second * time.Duration(timeToWait + 1).     *)
(***************************************************************************)
\* x * 10^9, wrapping at the width of x.
TimesSecond(x) == MulAdd(MulAdd(MulAdd(x, Thousand, 0), Thousand, 0), Thousand, 0)

\* The Duration handed to time.Sleep for reset value r (an int).
WaitDuration(r) == TimesSecond(MulAdd(r, 1, 1))

\* time.Sleep(d): returns at once for d <= 0, takes (at least) d otherwise.
Sleep(d) == IF IsNegative(d) THEN Zero(IntLimbs) ELSE d

\* Lines 160-166 for header value h: the result of strconv.Atoi and, when it
\* is a number, the time the time.Sleep takes.
ResetWait(h) ==
    LET a == Atoi(h)
    IN [ok |-> a.ok,
        wait |-> IF a.ok THEN Sleep(WaitDuration(a.val)) ELSE Zero(IntLimbs)]

\* (r + 1) seconds in nanoseconds, exactly, for r >= 0.
ExactWait(r) == TimesSecond(MulAdd(Widen(r, WideLimbs), 1, 1))

(***************************************************************************)
(* URLs.  A *url.URL is [Path, RawQuery, bad]; bad marks a URL whose       *)
(* String() form url.Parse rejects (a control character, an invalid host   *)
(* escape).  The text of a URL is [text, parses].                          *)
(***************************************************************************)
\* URL.String().
URLString(u) == [text |-> <<u.Path, u.RawQuery>>, parses |-> ~u.bad]

\* url.Parse of a URL text.
ParseURL(t) ==
    IF t.parses
    THEN [ok |-> TRUE, url |-> [Path |-> t.text[1], RawQuery |-> t.text[2], bad |-> FALSE]]
    ELSE [ok |-> FALSE, url |-> [Path |-> <<>>, RawQuery |-> <<>>, bad |-> FALSE]]

\* url.Parse that rejects nothing.
ParseReferenceAny(u) ==
    [ok |-> TRUE, url |-> [Path |-> <<u.Path>>, RawQuery |-> u.RawQuery, bad |-> FALSE]]

\* url.Parse of the caller's relative reference: ":" has no scheme before
\* its colon and is rejected (TestNewRequest_badURL).
ParseReference(u) ==
    IF u.Path = ":"
    THEN [ok |-> FALSE, url |-> [Path |-> <<>>, RawQuery |-> <<>>, bad |-> FALSE]]
    ELSE [ok |-> TRUE, url |-> [Path |-> <<u.Path>>, RawQuery |-> u.RawQuery, bad |-> FALSE]]

\* c.BaseURL.ResolveReference: the base is https://libraries.io/api/, a
\* relative path is appended to it and the reference's query is kept.
ResolveReference(rel) == [rel EXCEPT !.Path = client.BaseURL \o @]

\* A mutation of redactAPIKey that removes nothing (Add for Set).
redactAPIKeyAdd(u) ==
    [u EXCEPT !.RawQuery = Encode(ValuesAdd(Query(u.RawQuery), "api_key", Redacted))]

\* redactAPIKey(url): the value of *url when it returns.  It writes to the
\* URL it is given and returns that same pointer, so the caller's object
\* holds this value afterwards.
redactAPIKey(u) ==
    [u EXCEPT !.RawQuery = Encode(ValuesSet(Query(u.RawQuery), "api_key", Redacted))]

(***************************************************************************)
(* Values of the state.                                                    *)
(***************************************************************************)
NoReq == [kind |-> "none"]
NoResp == [kind |-> "none"]
NoErr == [kind |-> "none"]
NoText == [kind |-> "none"]
NoOp == [op |-> "none"]

\* Error values.
\* A *url.Error: the URL text it echoes and the error it wraps.
URLError(t, cause) == [kind |-> "url.Error", URL |-> t, Err |-> cause]
ErrorResponse(r, m) == [kind |-> "ErrorResponse", Response |-> r, Message |-> m]
NumError == [kind |-> "strconv.NumError"]
ReadError == [kind |-> "read"]
JSONError == [kind |-> "json"]

AtRestStates == {"Idle", "Done", "TransportFailed"}
InDoStates == {"Built", "Sent", "Received", "ValidatedOk", "ValidatedError",
               "RetryEligible", "NotEligible", "Sleeping", "BodyRead", "Decoded"}
Terminal == {"Done", "TransportFailed"}

\* A counter of the observation, which stops at MaxCount.
Inc(n) == IF n < MaxCount THEN n + 1 ELSE n

(***************************************************************************)
(* NewRequest (lines 52-88).                                               *)
(***************************************************************************)
\* The relative references a caller passes: a path with up to MaxQuery query
\* pairs, or the unparsable ":".
CallerPairs == {<<"api_key", "x">>, <<"api_key", "%zz">>, <<"a", "x%20y">>}
CallerQueries == UNION {[1..n -> CallerPairs] : n \in 0..MaxQuery}
URLStrings ==
    {[Path |-> ":", RawQuery |-> <<>>]}
    \cup {[Path |-> "pypi/poyo", RawQuery |-> q] : q \in CallerQueries}
\* The payloads: none, one that serializes, one that does not (a map with
\* interface keys, TestNewRequest_invalidJSON).
Payloads == {"nil", "value", "unsupported"}
\* The methods a caller passes: the two in use, and one that is no HTTP token.
CallerMethods == Methods \cup {"bad method"}

\* Line 70: http.NewRequest rejects a method that is not a token.
ValidMethod(method) == method # "bad method"

\* The credential step of NewRequest with Add for Set.
SetAPIKeyAdd(q) == Encode(ValuesAdd(Query(q), "api_key", client.apiKey))

\* Lines 76-78: q := req.URL.Query(); q.Set("api_key", c.apiKey); RawQuery = q.Encode().
SetAPIKey(q) == Encode(ValuesSet(Query(q), "api_key", client.apiKey))

\* The Content-Type header set whatever the payload.
ContentTypeAlways(data) == "application/json"

\* Lines 83-85: Content-Type is set only with a payload ("" is no header).
ContentType(data) == IF data # "nil" THEN "application/json" ELSE ""

\* The pair NewRequest returns.
NewRequestResult(method, urlStr, data) ==
    LET rel == ParseReference(urlStr)
        abs == ResolveReference(rel.url)
    IN IF ~rel.ok THEN [req |-> NoReq, err |-> [kind |-> "url.Parse"]]
       ELSE IF data = "unsupported" THEN [req |-> NoReq, err |-> JSONError]
       ELSE IF ~ValidMethod(method) THEN [req |-> NoReq, err |-> [kind |-> "net/http"]]
       ELSE [req |-> [kind |-> "request",
                      Method |-> method,
                      URL |-> [abs EXCEPT !.RawQuery = SetAPIKey(@)],
                      Body |-> IF data = "nil" THEN "none" ELSE "json",
                      Header |-> [Accept |-> mediaType,
                                  UserAgent |-> client.UserAgent,
                                  ContentType |-> ContentType(data)]],
             err |-> NoErr]

(***************************************************************************)
(* Responses and CheckResponse (lines 98-130).                             *)
(***************************************************************************)
\* Status codes a server answers with (net/http hands every final status to
\* the caller; redirects without a Location included).
Statuses == {199, 200, 299, 300, 400, 429}

\* X-RateLimit-Reset values: absent (or empty), small, negative, not a
\* number, and 9223372036, the first value whose (r+1) seconds exceed an int64
\* of nanoseconds.
ResetHeaders ==
    { <<>>, <<"2">>, <<"-", "3">>, <<"x">>,
      <<"9", "2", "2", "3", "3", "7", "2", "0", "3", "6">> }

\* ResetWait over these header values, evaluated once.
ResetWaits == [h \in ResetHeaders |-> ResetWait(h)]

\* What reading an unread body yields.  An object may hold an "error" member
\* (a string, or another type) and a "Response" member (null, or an object
\* with a StatusCode): ErrorResponse has two exported fields, Message
\* (tagged "error") and Response (untagged), and json.Unmarshal fills both.
OverrideStatuses == {204, 429}
BodyData ==
    {[kind |-> k, error |-> "absent", Response |-> "absent", StatusCode |-> 0] :
        k \in {"readfail", "empty", "malformed"}}
    \cup {[kind |-> "object", error |-> e, Response |-> r, StatusCode |-> 0] :
            e \in {"absent", "Nope", "nonstring"}, r \in {"absent", "null"}}
    \cup {[kind |-> "object", error |-> e, Response |-> "object", StatusCode |-> c] :
            e \in {"absent", "Nope", "nonstring"}, c \in OverrideStatuses}

\* A response as the transport (or a caller's literal) makes it.  wire is the
\* status it was made with, StatusCode the field as it stands.
Response(status, reset) ==
    [kind |-> "response", StatusCode |-> status, wire |-> status,
     Reset |-> reset, Body |-> "unread", read |-> "none"]

\* io.ReadAll(resp.Body): an unread body yields its data, a drained one
\* nothing (and no error), a closed one an error.
ReadAll(body, data) ==
    CASE body = "unread"  -> data
      [] body = "drained" ->
            [kind |-> "empty", error |-> "absent", Response |-> "absent", StatusCode |-> 0]
      [] OTHER ->
            [kind |-> "readfail", error |-> "absent", Response |-> "absent", StatusCode |-> 0]

\* Line 119.
IsSuccess(code) == 200 <= code /\ code <= 299

\* json.Unmarshal(data, errResp) for errResp = &ErrorResponse{Response: resp}:
\* the ErrorResponse and the response afterwards.  Empty or malformed data
\* changes nothing; a member of the wrong type is skipped and the rest is
\* still decoded; "Response": null clears the pointer; "Response": {...}
\* is decoded into the response the pointer refers to.
Unmarshal(data, r) ==
    IF data.kind # "object" THEN [err |-> ErrorResponse("resp", ""), resp |-> r]
    ELSE [err |-> ErrorResponse(IF data.Response = "null" THEN "nil" ELSE "resp",
                                IF data.error \in {"absent", "nonstring"} THEN ""
                                ELSE data.error),
          resp |-> IF data.Response = "object"
                   THEN [r EXCEPT !.StatusCode = data.StatusCode]
                   ELSE r]

\* CheckResponse(resp), when reading the body would yield data: the error it
\* returns and the response afterwards.
CheckResponse(r, data) ==
    IF IsSuccess(r.StatusCode) THEN [err |-> NoErr, resp |-> r]
    ELSE LET got  == ReadAll(r.Body, data)
             read == [r EXCEPT !.Body = IF @ = "unread" THEN "drained" ELSE @]
         IN IF got.kind = "readfail"
            THEN [err |-> ErrorResponse("resp", ""), resp |-> read]
            ELSE Unmarshal(got, read)

(***************************************************************************)
(* Error texts: ErrorResponse.Error (lines 105-114) and url.Error.Error.   *)
(***************************************************************************)
Text(hasURL, url, what) == [kind |-> "text", hasURL |-> hasURL, URL |-> url, what |-> what]
NoURL == [text |-> <<>>, parses |-> TRUE]

\* The text of error e; an ErrorResponse reads its request and response.
ErrorText(e, request, response) ==
    CASE e.kind = "ErrorResponse" ->
            IF e.Response = "nil" THEN [kind |-> "panic"]
            ELSE Text(TRUE, URLString(redactAPIKey(request.URL)),
                      <<request.Method, response.StatusCode, e.Message>>)
      [] e.kind = "url.Error" -> Text(TRUE, e.URL, <<"url.Error">>)
      [] OTHER -> Text(FALSE, NoURL, <<e.kind>>)

\* The request after err.Error() returned: redactAPIKey was handed the
\* request's own URL (r.Response.Request.URL) and wrote to it.
RequestAfterError(e, request) ==
    IF e.kind = "ErrorResponse" /\ e.Response # "nil"
    THEN [request EXCEPT !.URL = redactAPIKey(@)]
    ELSE request

\* A text shows the credential when a query pair of its URL holds it.
Leaks(t) ==
    /\ t.kind = "text"
    /\ t.hasURL
    /\ \E i \in 1..Len(t.URL.text[2]) : t.URL.text[2][i][2] = APIKey

(***************************************************************************)
(* Do (lines 135-188), its transport error path.                           *)
(***************************************************************************)
\* Lines 139-149: the transport's *url.Error echoes the request URL; when
\* that text parses, its api_key is redacted on the parsed copy; when it does
\* not, the error is returned as it came.
TransportError(u, cause) ==
    LET p == ParseURL(URLString(u))
    IN IF p.ok THEN URLError(URLString(redactAPIKey(p.url)), cause)
       ELSE URLError(URLString(u), cause)

(***************************************************************************)
(* The state machine.                                                      *)
(***************************************************************************)
Init ==
    /\ client = NewClient(APIKey)
    /\ Retry = FALSE
    /\ req = NoReq
    /\ reqErr = NoErr
    /\ pc = "Idle"
    /\ obj = FALSE
    /\ cancelled = FALSE
    /\ resp = NoResp
    /\ errs = <<>>
    /\ err = NoErr
    /\ retResp = FALSE
    /\ slept = Zero(IntLimbs)
    /\ sends = 0
    /\ throttled = 0
    /\ openBodies = 0
    /\ rendered = NoText
    /\ last = NoOp

AtRest == pc \in AtRestStates

\* The caller lets go of the previous call's values.
ResetCall ==
    /\ cancelled' = FALSE
    /\ resp' = NoResp
    /\ errs' = <<>>
    /\ err' = NoErr
    /\ retResp' = FALSE
    /\ slept' = Zero(IntLimbs)
    /\ sends' = 0
    /\ throttled' = 0
    /\ openBodies' = 0
    /\ rendered' = NoText

\* c.Retry = true / false: the caller sets the exported field.
SetRetry ==
    /\ AtRest
    /\ Retry' = ~Retry
    /\ UNCHANGED <<req, reqErr, pc, obj, cancelled, resp, errs, err, retResp,
                   slept, sends, throttled, openBodies, rendered, last>>
    /\ UNCHANGED client

\* c.NewRequest(method, urlStr, data).
NewRequest(method, urlStr, data) ==
    /\ AtRest
    /\ LET r == NewRequestResult(method, urlStr, data)
       IN /\ req' = r.req
          /\ reqErr' = r.err
    /\ pc' = "Idle"
    /\ ResetCall
    /\ obj' = FALSE
    /\ last' = [op |-> "NewRequest", method |-> method, urlStr |-> urlStr, data |-> data]
    /\ UNCHANGED Retry
    /\ UNCHANGED client

\* Requests a caller makes as a literal, as TestDo_httpClientError does: they
\* carry the credential, and the URL text of one of them does not parse.
LiteralRequests ==
    {[kind |-> "request", Method |-> m,
      URL |-> [Path |-> <<"https://libraries.io", "/api/", "pypi/poyo">>,
               RawQuery |-> <<<<"api_key", APIKey>>>>, bad |-> b],
      Body |-> "none",
      Header |-> [Accept |-> "", UserAgent |-> "", ContentType |-> ""]] :
        m \in Methods, b \in BOOLEAN}

RequestLiteral(r) ==
    /\ AtRest
    /\ req' = r
    /\ reqErr' = NoErr
    /\ pc' = "Idle"
    /\ ResetCall
    /\ obj' = FALSE
    /\ last' = [op |-> "literal"]
    /\ UNCHANGED Retry
    /\ UNCHANGED client

\* redactAPIKey(req.URL), called on the URL of the request the caller holds:
\* the URL is written in place.  again tells that the call before this one
\* was a redaction of the same URL, first is that URL before any redaction.
CallRedactAPIKey ==
    /\ AtRest
    /\ req # NoReq
    /\ req' = [req EXCEPT !.URL = redactAPIKey(@)]
    /\ last' = [op |-> "redactAPIKey",
                in |-> req.URL,
                out |-> redactAPIKey(req.URL),
                again |-> (last.op = "redactAPIKey"),
                first |-> IF last.op = "redactAPIKey" THEN last.first ELSE req.URL]
    /\ UNCHANGED <<Retry, reqErr, pc, obj, cancelled, resp, errs, err, retResp,
                   slept, sends, throttled, openBodies, rendered>>
    /\ UNCHANGED client

\* &http.Response{Request: req, StatusCode: status, Body: ...}, as
\* TestCheckResponse and TestErrorResponse make one.
ResponseLiteral(status) ==
    /\ AtRest
    /\ req # NoReq
    /\ resp' = Response(status, <<>>)
    /\ errs' = <<>>
    /\ err' = NoErr
    /\ retResp' = FALSE
    /\ rendered' = NoText
    /\ pc' = "Idle"
    /\ last' = [op |-> "literal"]
    /\ UNCHANGED <<Retry, req, reqErr, obj, cancelled, slept, sends, throttled, openBodies>>
    /\ UNCHANGED client

\* The caller calls CheckResponse(resp) on the response it holds.
CallCheckResponse(data) ==
    /\ AtRest
    /\ resp # NoResp
    /\ Len(errs) < MaxChecks
    /\ LET r == CheckResponse(resp, data)
       IN /\ resp' = r.resp
          /\ err' = r.err
          /\ errs' = Append(errs, r.err)
    /\ last' = [op |-> "CheckResponse",
                read |-> ReadAll(resp.Body, data),
                status |-> resp.StatusCode]
    /\ UNCHANGED <<Retry, req, reqErr, pc, obj, cancelled, retResp, slept, sends,
                   throttled, openBodies, rendered>>
    /\ UNCHANGED client

\* The caller renders the error it holds: err.Error().
RenderError ==
    /\ AtRest
    /\ err # NoErr
    /\ rendered' = ErrorText(err, req, resp)
    /\ req' = RequestAfterError(err, req)
    /\ last' = [op |-> "Error"]
    /\ UNCHANGED <<Retry, reqErr, pc, obj, cancelled, resp, errs, err, retResp,
                   slept, sends, throttled, openBodies>>
    /\ UNCHANGED client

\* c.Do(ctx, req, obj) is entered: line 136.
DoCall(o) ==
    /\ AtRest
    /\ req # NoReq
    /\ pc' = "Built"
    /\ ResetCall
    /\ obj' = o
    /\ last' = [op |-> "Do"]
    /\ UNCHANGED <<Retry, req, reqErr>>
    /\ UNCHANGED client

\* Line 138: c.client.Do(req) is called.
Send ==
    /\ pc = "Built"
    /\ pc' = "Sent"
    /\ sends' = Inc(sends)
    /\ UNCHANGED <<Retry, req, reqErr, obj, cancelled, resp, errs, err, retResp,
                   slept, throttled, openBodies, rendered, last>>
    /\ UNCHANGED client

\* The caller's context is cancelled while Do runs.
Cancel ==
    /\ pc \in InDoStates
    /\ ~cancelled
    /\ cancelled' = TRUE
    /\ UNCHANGED <<Retry, req, reqErr, pc, obj, resp, errs, err, retResp,
                   slept, sends, throttled, openBodies, rendered, last>>
    /\ UNCHANGED client

\* Do returns with only the Close of the innermost frame run.
ReturnCloseLast(r, e, state) ==
    /\ pc' = state
    /\ retResp' = r
    /\ err' = e
    /\ resp' = IF r THEN [resp EXCEPT !.Body = "closed"] ELSE NoResp
    /\ openBodies' = IF openBodies > 0 THEN openBodies - 1 ELSE 0

\* Do returns (r, e): every deferred resp.Body.Close() of the call runs as
\* the recursion unwinds.
Return(r, e, state) ==
    /\ pc' = state
    /\ retResp' = r
    /\ err' = e
    /\ resp' = IF r THEN [resp EXCEPT !.Body = "closed"] ELSE NoResp
    /\ openBodies' = 0

\* Lines 139-149: c.client.Do failed (a cancelled context makes it fail).
TransportFail ==
    /\ pc = "Sent"
    /\ Return(FALSE,
              TransportError(req.URL, IF cancelled THEN "context canceled" ELSE "net"),
              "TransportFailed")
    /\ UNCHANGED <<Retry, req, reqErr, obj, cancelled, errs, slept, sends,
                   throttled, rendered, last>>
    /\ UNCHANGED client

\* Lines 138, 150: a response arrives and its Close is deferred.
Receive(status, reset) ==
    /\ pc = "Sent"
    /\ ~cancelled
    /\ resp' = Response(status, reset)
    /\ errs' = <<>>
    /\ openBodies' = Inc(openBodies)
    /\ pc' = "Received"
    /\ UNCHANGED <<Retry, req, reqErr, obj, cancelled, err, retResp, slept,
                   sends, throttled, rendered, last>>
    /\ UNCHANGED client

\* Line 153: CheckResponse(resp).
Validate(data) ==
    /\ pc = "Received"
    /\ LET r == CheckResponse(resp, data)
       IN /\ resp' = r.resp
          /\ err' = r.err
          /\ errs' = Append(errs, r.err)
          /\ pc' = IF r.err = NoErr THEN "ValidatedOk" ELSE "ValidatedError"
    /\ UNCHANGED <<Retry, req, reqErr, obj, cancelled, retResp, slept, sends,
                   throttled, openBodies, rendered, last>>
    /\ UNCHANGED client

\* Lines 156-159 with the method test left out.
EligibleAnyMethod ==
    /\ Retry
    /\ resp.StatusCode = StatusTooManyRequests
    /\ resp.Reset # <<>>

\* Lines 156-159: the condition of the retry.
Eligible ==
    /\ Retry
    /\ resp.StatusCode = StatusTooManyRequests
    /\ req.Method = "GET"
    /\ resp.Reset # <<>>

\* Lines 156-159 evaluated.
Classify ==
    /\ pc = "ValidatedError"
    /\ pc' = IF Eligible THEN "RetryEligible" ELSE "NotEligible"
    /\ UNCHANGED <<Retry, req, reqErr, obj, cancelled, resp, errs, err, retResp,
                   slept, sends, throttled, openBodies, rendered, last>>
    /\ UNCHANGED client

\* Line 170 with a resend in place of the return.
ReturnErrorResend ==
    /\ pc = "NotEligible"
    /\ pc' = "Sent"
    /\ sends' = Inc(sends)
    /\ UNCHANGED <<Retry, req, reqErr, obj, cancelled, resp, errs, err, retResp,
                   slept, throttled, openBodies, rendered, last>>
    /\ UNCHANGED client

\* Line 170: return resp, err.
ReturnError ==
    /\ pc = "NotEligible"
    /\ Return(TRUE, err, "Done")
    /\ UNCHANGED <<Retry, req, reqErr, obj, cancelled, errs, slept, sends,
                   throttled, rendered, last>>
    /\ UNCHANGED client

\* Lines 160-166 with a header that is no number taken as no wait at all.
ParseResetLenient ==
    /\ pc = "RetryEligible"
    /\ pc' = "Sleeping"
    /\ slept' = ResetWaits[resp.Reset].wait
    /\ throttled' = Inc(throttled)
    /\ UNCHANGED <<resp, err, retResp, openBodies>>
    /\ UNCHANGED <<Retry, req, reqErr, obj, cancelled, errs, sends, rendered, last>>
    /\ UNCHANGED client

\* Lines 160-166: the header is parsed; a parse error is returned with the
\* response, otherwise time.Sleep begins.
ParseReset ==
    /\ pc = "RetryEligible"
    /\ LET a == ResetWaits[resp.Reset]
       IN IF ~a.ok
          THEN /\ Return(TRUE, NumError, "Done")
               /\ UNCHANGED <<slept, throttled>>
          ELSE /\ pc' = "Sleeping"
               /\ slept' = a.wait
               /\ throttled' = Inc(throttled)
               /\ UNCHANGED <<resp, err, retResp, openBodies>>
    /\ UNCHANGED <<Retry, req, reqErr, obj, cancelled, errs, sends, rendered, last>>
    /\ UNCHANGED client

\* Lines 166-168 and, in the recursive call, 136-138: time.Sleep returns
\* after the whole wait, whatever the context, and the request is sent again.
Wake ==
    /\ pc = "Sleeping"
    /\ pc' = "Sent"
    /\ sends' = Inc(sends)
    /\ UNCHANGED <<Retry, req, reqErr, obj, cancelled, resp, errs, err, retResp,
                   slept, throttled, openBodies, rendered, last>>
    /\ UNCHANGED client

\* Lines 174-187 with the body left unread and the response returned.
ReadBodySkipped(outcome) ==
    /\ pc = "ValidatedOk"
    /\ Return(TRUE, NoErr, "Done")
    /\ UNCHANGED <<Retry, req, reqErr, obj, cancelled, errs, slept, sends,
                   throttled, rendered, last>>
    /\ UNCHANGED client

\* Lines 174-177: io.ReadAll(resp.Body) on a success.
ReadBody(outcome) ==
    /\ pc = "ValidatedOk"
    /\ IF outcome = "fail"
       THEN Return(FALSE, ReadError, "Done")
       ELSE /\ pc' = "BodyRead"
            /\ resp' = [resp EXCEPT !.Body = "drained", !.read = outcome]
            /\ UNCHANGED <<err, retResp, openBodies>>
    /\ UNCHANGED <<Retry, req, reqErr, obj, cancelled, errs, slept, sends,
                   throttled, rendered, last>>
    /\ UNCHANGED client

\* Lines 180-185 with a decode failure sent round again under Retry.
DecodeRetrying ==
    /\ pc = "BodyRead"
    /\ IF obj /\ resp.read = "garbage"
       THEN IF Retry
            THEN /\ pc' = "Sent"
                 /\ sends' = Inc(sends)
                 /\ UNCHANGED <<resp, err, retResp, openBodies>>
            ELSE /\ Return(FALSE, JSONError, "Done")
                 /\ UNCHANGED sends
       ELSE /\ pc' = "Decoded"
            /\ UNCHANGED <<resp, err, retResp, openBodies, sends>>
    /\ UNCHANGED <<Retry, req, reqErr, obj, cancelled, errs, slept,
                   throttled, rendered, last>>
    /\ UNCHANGED client

\* Lines 180-185: json.Unmarshal(body, obj) when obj is given.
Decode ==
    /\ pc = "BodyRead"
    /\ IF obj /\ resp.read = "garbage"
       THEN Return(FALSE, JSONError, "Done")
       ELSE /\ pc' = "Decoded"
            /\ UNCHANGED <<resp, err, retResp, openBodies>>
    /\ UNCHANGED <<Retry, req, reqErr, obj, cancelled, errs, slept, sends,
                   throttled, rendered, last>>
    /\ UNCHANGED client

\* Line 187: return resp, nil.
ReturnOk ==
    /\ pc = "Decoded"
    /\ Return(TRUE, NoErr, "Done")
    /\ UNCHANGED <<Retry, req, reqErr, obj, cancelled, errs, slept, sends,
                   throttled, rendered, last>>
    /\ UNCHANGED client

\* The requests the dispatching caller builds: the test's path, no payload.
SentURLStrings == {[Path |-> "pypi/poyo", RawQuery |-> <<>>]}

\* A caller that builds requests, dispatches them with Do and renders the
\* errors Do returns.
Next ==
    \/ SetRetry
    \/ \E m \in Methods, u \in SentURLStrings : NewRequest(m, u, "nil")
    \/ \E r \in LiteralRequests : RequestLiteral(r)
    \/ RenderError
    \/ \E o \in BOOLEAN : DoCall(o)
    \/ Send
    \/ Cancel
    \/ TransportFail
    \/ \E s \in Statuses, h \in ResetHeaders : Receive(s, h)
    \/ \E data \in BodyData : Validate(data)
    \/ Classify
    \/ ReturnError
    \/ ParseReset
    \/ Wake
    \/ \E outcome \in {"fail", "json", "garbage"} : ReadBody(outcome)
    \/ Decode
    \/ ReturnOk

Spec == Init /\ [][Next]_vars

\* The steps Do takes by itself once it is called: the goroutine runs,
\* c.client.Do returns (with a response or an error), time.Sleep returns.
DoStep ==
    \/ Send
    \/ TransportFail
    \/ \E s \in Statuses, h \in ResetHeaders : Receive(s, h)
    \/ \E data \in BodyData : Validate(data)
    \/ Classify
    \/ ReturnError
    \/ ParseReset
    \/ Wake
    \/ \E outcome \in {"fail", "json", "garbage"} : ReadBody(outcome)
    \/ Decode
    \/ ReturnOk

FairSpec == Spec /\ WF_vars(DoStep)

\* A caller that uses the parts below Do: it builds requests from every
\* reference and payload, checks responses with CheckResponse and renders
\* the errors.
NextParts ==
    \/ \E m \in CallerMethods, u \in URLStrings, d \in Payloads : NewRequest(m, u, d)
    \/ \E r \in LiteralRequests : RequestLiteral(r)
    \/ \E s \in Statuses : ResponseLiteral(s)
    \/ \E data \in BodyData : CallCheckResponse(data)
    \/ RenderError

SpecParts == Init /\ [][NextParts]_vars

\* The URLs handed to redactAPIKey: up to MaxQuery query pairs, with and
\* without api_key, in and out of key order, with an escape Encode writes
\* differently and with one that does not unescape.
RedactPairs ==
    {<<"api_key", "1234">>, <<"a", "x%20y">>, <<"a", "%zz">>, <<"b", "x">>,
     <<"api_key", "x">>}
RedactQueries == UNION {[1..n -> RedactPairs] : n \in 0..MaxQuery}
RedactRequests ==
    {[kind |-> "request", Method |-> m,
      URL |-> [Path |-> <<"https://libraries.io", "/api/", "pypi/poyo">>,
               RawQuery |-> q, bad |-> FALSE],
      Body |-> "none",
      Header |-> [Accept |-> "", UserAgent |-> "", ContentType |-> ""]] :
        m \in Methods, q \in RedactQueries}

\* A caller that redacts the URLs of requests, once and again.
NextRedact ==
    \/ \E r \in RedactRequests : RequestLiteral(r)
    \/ CallRedactAPIKey

SpecRedact == Init /\ [][NextRedact]_vars

(***************************************************************************)
(* Properties.                                                             *)
(***************************************************************************)

\* C1: no rendered error text shows the client's raw api_key value, on any
\* path, the one where the transport error's URL does not re-parse included.
C1_NoCredentialInErrorText == ~Leaks(rendered)

\* C2: a request returned by NewRequest carries exactly one api_key query
\* parameter, and its value is the client's credential, whatever api_key
\* values the relative path supplied.
C2_ExactlyOneCredential ==
    (last.op = "NewRequest" /\ req # NoReq) =>
        /\ Cardinality({i \in 1..Len(req.URL.RawQuery) :
                            req.URL.RawQuery[i][1] = "api_key"}) = 1
        /\ Query(req.URL.RawQuery)["api_key"] = <<APIKey>>

\* A request built from a relative path that supplies api_key twice.
C2_Witness ==
    /\ last.op = "NewRequest"
    /\ req # NoReq
    /\ last.urlStr.RawQuery = <<<<"api_key", "x">>, <<"api_key", "x">>>>

\* C3: rendering an error leaves the request unchanged: after any number of
\* renderings the request's api_key still equals the client's credential.
C3_RequestKeepsCredential ==
    (rendered # NoText /\ req # NoReq) =>
        ValuesGet(Query(req.URL.RawQuery), "api_key") = APIKey

\* The four conditions of the retry, read from the state.
C4_AllHold ==
    /\ Retry
    /\ resp.StatusCode = StatusTooManyRequests
    /\ req.Method = "GET"
    /\ resp.Reset # <<>>

C5_WaitAtLeastReset ==
    pc = "Sleeping" =>
        LET r == Atoi(resp.Reset).val
        IN IsNegative(r) \/ ~Less(Widen(slept, WideLimbs), ExactWait(r))

\* C6: a context cancelled during the wait ends the call from within the
\* wait, with no further send.
C6_WaitIsCancellable ==
    [][ (pc = "Sleeping" /\ cancelled /\ pc' # pc) =>
            (pc' \in Terminal /\ err' # NoErr /\ sends' = sends) ]_vars

\* C7 as stated: every call of Do reaches a terminal state.
C7_DoTerminates == (pc = "Built") ~> (pc \in Terminal)

\* C7, amended: Do sets no cap; it sends once, and once more for each
\* retry-eligible 429 whose reset header parses, and it is at a terminal
\* state only after as many sends as that.
C7_SendsFollowThrottles ==
    /\ sends <= throttled + 1
    /\ (pc \in Terminal /\ throttled < MaxCount) => sends = throttled + 1

\* A call that ended after two retries.
C7_Witness == pc \in Terminal /\ throttled = 2 /\ sends = 3

\* C8: CheckResponse returns nil exactly for the statuses 200..299, and for
\* every other status an ErrorResponse that carries that response and status.
C8_CheckResponseByStatus ==
    (last.op = "CheckResponse" /\ Len(errs) = 1) =>
        IF 200 <= resp.wire /\ resp.wire <= 299
        THEN errs[1] = NoErr
        ELSE /\ errs[1].kind = "ErrorResponse"
             /\ errs[1].Response = "resp"
             /\ resp.StatusCode = resp.wire

\* C9: two CheckResponse calls on the same non-2xx response return equal
\* errors.
C9_CheckResponseIdempotent ==
    (Len(errs) = 2 /\ errs[1] # NoErr) => errs[2] = errs[1]

\* C10: a transport failure (a cancelled context included) ends the call with
\* an error and no further send; a 2xx body that does not decode into the
\* supplied container ends it with the decode error, no wait and no further
\* send; whatever Retry is.
C10_FatalNotRetried ==
    [][ /\ (pc = "Sent" /\ pc' \notin {"Sent", "Received"}) =>
              /\ pc' = "TransportFailed"
              /\ err'.kind = "url.Error"
              /\ ~retResp'
              /\ sends' = sends
              /\ slept' = slept
        /\ (pc = "Sent" /\ cancelled /\ pc' # pc) => pc' = "TransportFailed"
        /\ (pc = "BodyRead" /\ obj /\ resp.read = "garbage" /\ pc' # pc) =>
              /\ pc' = "Done"
              /\ err' = JSONError
              /\ ~retResp'
              /\ sends' = sends
              /\ slept' = slept
        /\ (pc \in Terminal /\ pc' \in InDoStates) => pc' = "Built"
      ]_vars

\* A call under Retry that ended with the decode error after its one send.
C10_Witness ==
    /\ pc = "Done"
    /\ Retry
    /\ obj
    /\ err = JSONError
    /\ ~retResp
    /\ sends = 1

\* C11: when a call of Do has returned, every response body it received is
\* closed, the bodies of the 429 responses that led to a retry included, and
\* the response it hands back is closed too.
C11_BodiesClosedOnReturn ==
    pc \in Terminal =>
        /\ openBodies = 0
        /\ retResp => resp.Body = "closed"

\* A call that failed in the transport on its third send, after two 429
\* responses whose bodies were held open through the retries.
C11_Witness ==
    /\ pc = "TransportFailed"
    /\ throttled = 2
    /\ sends = 3
    /\ openBodies = 0

\* C12: the URL redactAPIKey returns differs from the URL it was given only
\* in the values of api_key: same path, same parameters in the same order
\* with the same values, none added, none removed.
C12_OnlyCredentialValueChanges ==
    last.op = "redactAPIKey" =>
        /\ last.out.Path = last.in.Path
        /\ Len(last.out.RawQuery) = Len(last.in.RawQuery)
        /\ \A i \in 1..Len(last.in.RawQuery) :
              /\ last.out.RawQuery[i][1] = last.in.RawQuery[i][1]
              /\ last.in.RawQuery[i][1] # "api_key" =>
                    last.out.RawQuery[i][2] = last.in.RawQuery[i][2]

\* C13: redacting a redacted URL changes nothing:
\* redactAPIKey(redactAPIKey(u)) = redactAPIKey(u).
C13_RedactIdempotent ==
    (last.op = "redactAPIKey" /\ last.again) => last.out = last.in

\* A second redaction of a URL that had no api_key, its keys out of order
\* and a %20 escape.
C13_Witness ==
    /\ last.op = "redactAPIKey"
    /\ last.again
    /\ last.first.RawQuery = <<<<"b", "x">>, <<"a", "x%20y">>>>

\* C14 as stated: NewRequest returns a nil request and an error when the
\* relative path does not parse or the payload does not serialize, and a
\* request and no error otherwise.
C14_RequestOrError ==
    last.op = "NewRequest" =>
        IF last.urlStr.Path = ":" \/ last.data = "unsupported"
        THEN req = NoReq /\ reqErr # NoErr
        ELSE req # NoReq /\ reqErr = NoErr

\* C14, amended: never both and never neither; the error cases are the path
\* that does not parse, the payload that does not serialize, and the request
\* http.NewRequest rejects (a method that is no token).
C14_RequestXorError ==
    last.op = "NewRequest" =>
        /\ (req = NoReq) <=> (reqErr # NoErr)
        /\ (req = NoReq) <=>
              \/ last.urlStr.Path = ":"
              \/ last.data = "unsupported"
              \/ last.method \notin Methods

\* A call with a good path and payload and a method that is no token.
C14_Witness ==
    /\ last.op = "NewRequest"
    /\ last.method = "bad method"
    /\ last.urlStr.Path # ":"
    /\ last.data = "value"
    /\ req = NoReq
    /\ reqErr # NoErr

\* C15: a request built by NewRequest has Accept application/json and the
\* client's User-Agent; with a nil payload no body and no Content-Type, with
\* a payload a JSON body and Content-Type application/json; Content-Type is
\* present exactly when a body is.
C15_HeadersFollowPayload ==
    (last.op = "NewRequest" /\ req # NoReq) =>
        /\ req.Header.Accept = "application/json"
        /\ req.Header.UserAgent = "go-librariesio/1"
        /\ last.data = "nil" => (req.Body = "none" /\ req.Header.ContentType = "")
        /\ last.data # "nil" =>
              (req.Body = "json" /\ req.Header.ContentType = "application/json")
        /\ (req.Header.ContentType # "") <=> (req.Body # "none")

\* A request built without a payload from a path with a query.
C15_Witness ==
    /\ last.op = "NewRequest"
    /\ req # NoReq
    /\ last.data = "nil"
    /\ last.urlStr.RawQuery # <<>>
    /\ req.Body = "none"
    /\ req.Header.ContentType = ""

\* C16: a client made by NewClient(key) has key as its credential, the base
\* URL https://libraries.io/api/, the User-Agent go-librariesio/1 and an HTTP
\* client timeout of 10 seconds.
C16_ClientConfiguration ==
    /\ client.apiKey = APIKey
    /\ client.BaseURL = <<"https://libraries.io", "/api/">>
    /\ client.UserAgent = "go-librariesio/1"
    /\ client.Timeout = 10

\* C17: a retry-eligible 429 whose reset header is not an integer makes Do
\* return the parse error with the response, at once: no wait, no further
\* send.
C17_ParseErrorReturned ==
    [][ (pc = "RetryEligible" /\ resp.Reset = <<"x">> /\ pc' # pc) =>
            /\ pc' = "Done"
            /\ err' = NumError
            /\ retResp'
            /\ resp'.StatusCode = resp.StatusCode
            /\ sends' = sends
            /\ slept' = slept
            /\ throttled' = throttled ]_vars

\* A GET under Retry answered once with 429 and the header "x".
C17_Witness ==
    /\ pc = "Done"
    /\ retResp
    /\ err = NumError
    /\ Retry
    /\ req.Method = "GET"
    /\ resp.Reset = <<"x">>
    /\ sends = 1
    /\ slept = Zero(IntLimbs)

\* The state of the specified per-call machine that a position of Do belongs
\* to: the wait is part of RetryEligible -> Sent, the read body part of
\* ValidatedOk -> Decoded.
C18_PhaseOf(p) ==
    CASE p = "Sleeping" -> "RetryEligible"
      [] p = "BodyRead" -> "ValidatedOk"
      [] OTHER          -> p

\* The transitions of the specified machine.
C18_Specified ==
    { <<"Built", "Sent">>, <<"Sent", "TransportFailed">>, <<"Sent", "Received">>,
      <<"Received", "ValidatedOk">>, <<"ValidatedOk", "Decoded">>,
      <<"Decoded", "Done">>, <<"Received", "ValidatedError">>,
      <<"ValidatedError", "RetryEligible">>, <<"RetryEligible", "Sent">>,
      <<"ValidatedError", "NotEligible">>, <<"NotEligible", "Done">> }

\* C18 as stated: a call of Do takes only the transitions of the specified
\* machine.
C18_RefinesStateMachine ==
    [][ (pc \in InDoStates /\ C18_PhaseOf(pc') # C18_PhaseOf(pc)) =>
            <<C18_PhaseOf(pc), C18_PhaseOf(pc')>> \in C18_Specified ]_vars

\* C18, amended: a call of Do takes the transitions of the specified machine
\* and, besides them, RetryEligible -> Done with the parse error of the reset
\* header and ValidatedOk -> Done with the error of a failed body read or
\* decode; eligibility is decided from the response of the current attempt.
C18_RefinesAmendedMachine ==
    [][ /\ (pc \in InDoStates /\ C18_PhaseOf(pc') # C18_PhaseOf(pc)) =>
              \/ <<C18_PhaseOf(pc), C18_PhaseOf(pc')>> \in C18_Specified
              \/ /\ C18_PhaseOf(pc) = "RetryEligible"
                 /\ pc' = "Done"
                 /\ err' = NumError
              \/ /\ C18_PhaseOf(pc) = "ValidatedOk"
                 /\ pc' = "Done"
                 /\ err' \in {ReadError, JSONError}
        /\ (pc = "ValidatedError" /\ pc' = "RetryEligible") => C4_AllHold
        /\ (pc = "ValidatedError" /\ pc' = "NotEligible") => ~C4_AllHold
      ]_vars

\* A call whose first 429 was retried and whose second 429, with another
\* header, ended it from RetryEligible.
C18_Witness ==
    /\ pc = "Done"
    /\ err = NumError
    /\ throttled = 1
    /\ sends = 2

\* C19: for every reset value r the parser accepts, the suspension before
\* the resend lasts (r + 1) seconds computed without wrap-around (none when
\* r + 1 is not positive); a large r never gives a shorter wait.
C19_WaitIsExact ==
    pc = "Sleeping" =>
        LET r == Atoi(resp.Reset).val
        IN IF IsNegative(r)
           THEN slept = Zero(IntLimbs)
           ELSE Widen(slept, WideLimbs) = ExactWait(r)

\* C20: the message of the ErrorResponse is the body's error member when the
\* body is an object with a string error member, and empty in every other
\* case; a decode that fails leaves the status code of the response as it
\* was.
C20_MessageFromBody ==
    (last.op = "CheckResponse" /\ err # NoErr) =>
        LET d == last.read
            failed == \/ d.kind # "object"
                      \/ d.error = "nonstring"
        IN /\ err.Message =
                 IF d.kind = "object" /\ d.error = "Nope" THEN "Nope" ELSE ""
           /\ failed => resp.StatusCode = last.status

====
